---- MODULE Spec2Model ----
(***************************************************************************)
(* mix_mono_to_stereo_intrinsics (src/mix.c): a mono buffer of num_samples *)
(* floats is mixed into an interleaved stereo buffer of 2*num_samples      *)
(* floats, four samples per SSE block.                                     *)
(*                                                                         *)
(* Widths are scaled: uint32_t is an unsigned integer of WordBits bits,    *)
(* and binary32 is a binary floating-point format of Prec significand bits *)
(* and largest exponent ExpMax, with signed zeros, subnormals, infinities, *)
(* quiet and signalling NaNs and round-to-nearest-even (the default MXCSR).*)
(* NaN payloads and the sign of a NaN are not modelled.                    *)
(***************************************************************************)
EXTENDS Integers, Sequences, FiniteSets

VARIABLES ndebug, mem, mem0, par, pc, i, reg, rd, wr, wdup, iters

vars == <<ndebug, mem, mem0, par, pc, i, reg, rd, wr, wdup, iters>>

----------------------------------------------------------------------------
\* Widths

\* bits of uint32_t, scaled
WordBits == 4
\* significand bits of a float (hidden bit included), scaled
Prec == 3
\* largest unbiased exponent of a float, scaled
ExpMax == 3
\* samples per block: the lanes of an __m128
BlockWidth == 4

Pow2(k) == 2 ^ k
Word == Pow2(WordBits)
Max(a, b) == IF a >= b THEN a ELSE b
Lane == 0 .. (BlockWidth - 1)

----------------------------------------------------------------------------
\* Floats: a finite value is (-1)^s * m * 2^e, with m < 2^Prec, e in
\* EMinQ..EMaxQ, and m >= 2^(Prec-1) unless e = EMinQ (zero and subnormals).

EMinQ == (1 - ExpMax) - (Prec - 1)
EMaxQ == ExpMax - (Prec - 1)

Zero(s) == [c |-> "fin", s |-> s, m |-> 0, e |-> EMinQ]
Inf(s) == [c |-> "inf", s |-> s, m |-> 0, e |-> 0]
QNaN == [c |-> "qnan", s |-> 0, m |-> 0, e |-> 0]
SNaN == [c |-> "snan", s |-> 0, m |-> 0, e |-> 0]

IsNaN(x) == x.c \in {"qnan", "snan"}
IsZero(x) == x.c = "fin" /\ x.m = 0
Xor(a, b) == (a + b) % 2

BitLen(m) == CHOOSE k \in 1 .. (2 * Prec + 2) : Pow2(k - 1) <= m /\ m < Pow2(k)

\* the float nearest to (-1)^s * m * 2^e, ties to even; overflow gives an
\* infinity, underflow a subnormal or a zero
RoundFin(s, m, e) ==
    IF m = 0 THEN Zero(s)
    ELSE LET q0 == Max(e + BitLen(m) - Prec, EMinQ)
             sh == q0 - e
             quo == IF sh > 0 THEN m \div Pow2(sh) ELSE m * Pow2(-sh)
             rem == IF sh > 0 THEN m % Pow2(sh) ELSE 0
             half == IF sh > 0 THEN Pow2(sh - 1) ELSE 1
             up == sh > 0 /\ (rem > half \/ (rem = half /\ quo % 2 = 1))
             r0 == IF up THEN quo + 1 ELSE quo
             carry == r0 = Pow2(Prec)
             r == IF carry THEN Pow2(Prec - 1) ELSE r0
             q == IF carry THEN q0 + 1 ELSE q0
         IN  IF q > EMaxQ THEN Inf(s)
             ELSE IF r = 0 THEN Zero(s)
             ELSE [c |-> "fin", s |-> s, m |-> r, e |-> q]

\* one lane of mulps: a NaN operand gives a quiet NaN, 0 * Inf the default
\* quiet NaN, anything else the rounded product with the xor of the signs
FMul(a, b) ==
    IF IsNaN(a) \/ IsNaN(b) THEN QNaN
    ELSE IF a.c = "inf" \/ b.c = "inf"
         THEN IF IsZero(a) \/ IsZero(b) THEN QNaN ELSE Inf(Xor(a.s, b.s))
    ELSE RoundFin(Xor(a.s, b.s), a.m * b.m, a.e + b.e)

\* the float written m * 2^e in the text (exact for the values used here)
Flt(s, m, e) ==
    IF e >= 0 THEN RoundFin(s, m * Pow2(e), 0) ELSE RoundFin(s, m, e)

----------------------------------------------------------------------------
\* The intrinsics and the integer expressions of the function

_mm_set1_ps(x) == [k \in Lane |-> x]
_mm_loadu_ps(m, p) == [k \in Lane |-> m[p + k]]
_mm_storeu_ps(m, p, v) ==
    [a \in DOMAIN m |-> IF a \in p .. (p + BlockWidth - 1) THEN v[a - p] ELSE m[a]]
_mm_mul_ps(a, b) == [k \in Lane |-> FMul(a[k], b[k])]

_mm_unpacklo_ps_swapped(a, b) == [k \in Lane |-> IF k % 2 = 0 THEN b[k \div 2] ELSE a[k \div 2]]
_mm_unpacklo_ps(a, b) == [k \in Lane |-> IF k % 2 = 0 THEN a[k \div 2] ELSE b[k \div 2]]
_mm_unpackhi_ps(a, b) ==
    [k \in Lane |-> IF k % 2 = 0 THEN a[2 + (k \div 2)] ELSE b[2 + (k \div 2)]]

AssertOk_mod2(n) == n % 2 = 0
AssertOk(n) == n % 4 = 0

LoopCond_le(j, n) == j <= n
LoopCond(j, n) == j < n

NextI_by8(j) == (j + 8) % Word
NextI(j) == (j + 4) % Word

DstOffLo(j) == (2 * j + 0) % Word
DstOffHi_plus8(j) == (2 * j + 8) % Word
DstOffHi(j) == (2 * j + 4) % Word

----------------------------------------------------------------------------
\* Callers: the buffers and arguments a call is made with

Calls == {1, 2}
MemWords == 6 * Word
Addr == 0 .. (MemWords - 1)

One == Flt(0, 1, 0)
Two == Flt(0, 2, 0)
Three == Flt(0, 3, 0)
Four == Flt(0, 4, 0)
Half == Flt(0, 1, -1)
NegOne == Flt(1, 1, 0)
NegThreeHalves == Flt(1, 3, -1)

\* source contents: Samples rotated by a shift, so that neighbouring samples
\* and neighbouring blocks differ
Samples == <<One, Two, Three, Four, NegThreeHalves>>
Sample(shift, j) == Samples[((j + shift) % Len(Samples)) + 1]
Shifts == {0, 1}
GainPairs == {<<Half, Two>>, <<One, One>>, <<Zero(0), One>>, <<Three, NegOne>>}
\* what the destination holds before the call
Fills == {QNaN, Three}
Scales == {Two, NegOne}

NoVec == _mm_set1_ps(Zero(0))
NoRegs == [mul_l |-> NoVec, mul_r |-> NoVec, in |-> NoVec, out_l |-> NoVec,
           out_r |-> NoVec, out_lo |-> NoVec, out_hi |-> NoVec]

Call(n, d, s, gl, gr) ==
    [active |-> TRUE, num_samples |-> n, dst |-> d, src |-> s,
     gain_l |-> gl, gain_r |-> gr]
NoCall ==
    [active |-> FALSE, num_samples |-> 0, dst |-> 0, src |-> 0,
     gain_l |-> Zero(0), gain_r |-> Zero(0)]

SrcRange(p) == p.src .. (p.src + p.num_samples - 1)
DstRange(p) == p.dst .. (p.dst + 2 * p.num_samples - 1)

InitCommon ==
    /\ ndebug \in BOOLEAN
    /\ mem = mem0
    /\ pc = [c \in Calls |-> IF par[c].active THEN "entry" ELSE "idle"]
    /\ i = [c \in Calls |-> 0]
    /\ reg = [c \in Calls |-> NoRegs]
    /\ rd = [c \in Calls |-> {}]
    /\ wr = [c \in Calls |-> {}]
    /\ wdup = [c \in Calls |-> {}]
    /\ iters = [c \in Calls |-> 0]

\* one call, of any count a uint32_t holds; src and dst are adjacent
Init ==
    /\ \E n \in 0 .. (Word - 1), g \in GainPairs, sh \in Shifts, fill \in Fills :
          /\ par = [c \in Calls |-> IF c = 1 THEN Call(n, n, 0, g[1], g[2]) ELSE NoCall]
          /\ mem0 = [a \in Addr |-> IF a < n THEN Sample(sh, a) ELSE fill]
    /\ InitCommon

\* two calls on disjoint adjacent buffers, with the same gains; the second
\* call's source is the first call's source scaled by k
InitPair ==
    /\ \E n1 \in {3, 4, Word - 4}, n2 \in {4, Word - 4}, g \in GainPairs,
          k \in Scales :
          /\ par = [c \in Calls |->
                      IF c = 1 THEN Call(n1, n1, 0, g[1], g[2])
                      ELSE Call(n2, 3 * n1 + n2, 3 * n1, g[1], g[2])]
          /\ mem0 = [a \in Addr |->
                      IF a < n1 THEN Sample(0, a)
                      ELSE IF a \in (3 * n1) .. (3 * n1 + n2 - 1)
                           THEN FMul(Sample(0, a - 3 * n1), k)
                      ELSE Three]
    /\ InitCommon

----------------------------------------------------------------------------
\* The steps of one call c

\* line 8, the assertion holds or NDEBUG removed it
AssertPass(c) ==
    /\ pc[c] = "entry"
    /\ ndebug \/ AssertOk(par[c].num_samples)
    /\ pc' = [pc EXCEPT ![c] = "set1"]
    /\ UNCHANGED <<ndebug, mem, mem0, par, i, reg, rd, wr, wdup, iters>>

\* line 8, the assertion fails: abort()
AssertFail(c) ==
    /\ pc[c] = "entry"
    /\ ~ndebug /\ ~AssertOk(par[c].num_samples)
    /\ pc' = [pc EXCEPT ![c] = "aborted"]
    /\ UNCHANGED <<ndebug, mem, mem0, par, i, reg, rd, wr, wdup, iters>>

\* lines 13-17: the gains broadcast, i = 0
Broadcast(c) ==
    /\ pc[c] = "set1"
    /\ reg' = [reg EXCEPT ![c].mul_l = _mm_set1_ps(par[c].gain_l),
                          ![c].mul_r = _mm_set1_ps(par[c].gain_r)]
    /\ i' = [i EXCEPT ![c] = 0]
    /\ pc' = [pc EXCEPT ![c] = "test"]
    /\ UNCHANGED <<ndebug, mem, mem0, par, rd, wr, wdup, iters>>

\* line 17: i < num_samples
LoopTest(c) ==
    /\ pc[c] = "test"
    /\ pc' = [pc EXCEPT ![c] =
                IF LoopCond(i[c], par[c].num_samples) THEN "load" ELSE "done"]
    /\ UNCHANGED <<ndebug, mem, mem0, par, i, reg, rd, wr, wdup, iters>>

\* line 21: a lane read past the end of src is undefined, and holds what the
\* memory there holds or anything else
Load(c) ==
    /\ pc[c] = "load"
    /\ \E junk \in {TRUE, FALSE} :
          reg' = [reg EXCEPT ![c].in =
                    [k \in Lane |->
                       IF junk /\ i[c] + k >= par[c].num_samples THEN QNaN
                       ELSE _mm_loadu_ps(mem, par[c].src + i[c])[k]]]
    /\ rd' = [rd EXCEPT ![c] = @ \cup {i[c] + k : k \in Lane}]
    /\ pc' = [pc EXCEPT ![c] = "mul"]
    /\ UNCHANGED <<ndebug, mem, mem0, par, i, wr, wdup, iters>>

\* lines 27-28
Mul(c) ==
    /\ pc[c] = "mul"
    /\ reg' = [reg EXCEPT ![c].out_l = _mm_mul_ps(reg[c].in, reg[c].mul_l),
                          ![c].out_r = _mm_mul_ps(reg[c].in, reg[c].mul_r)]
    /\ pc' = [pc EXCEPT ![c] = "unpack"]
    /\ UNCHANGED <<ndebug, mem, mem0, par, i, rd, wr, wdup, iters>>

\* lines 33-34
Unpack(c) ==
    /\ pc[c] = "unpack"
    /\ reg' = [reg EXCEPT ![c].out_lo = _mm_unpacklo_ps(reg[c].out_l, reg[c].out_r),
                          ![c].out_hi = _mm_unpackhi_ps(reg[c].out_l, reg[c].out_r)]
    /\ pc' = [pc EXCEPT ![c] = "store_lo"]
    /\ UNCHANGED <<ndebug, mem, mem0, par, i, rd, wr, wdup, iters>>

\* the dst indices off .. off+3 are written: wr holds the indices written,
\* wdup those written more than once
Written(c, off) ==
    /\ wdup' = [wdup EXCEPT ![c] = @ \cup (wr[c] \cap {off + k : k \in Lane})]
    /\ wr' = [wr EXCEPT ![c] = @ \cup {off + k : k \in Lane}]

\* line 37
StoreLo(c) ==
    /\ pc[c] = "store_lo"
    /\ mem' = _mm_storeu_ps(mem, par[c].dst + DstOffLo(i[c]), reg[c].out_lo)
    /\ Written(c, DstOffLo(i[c]))
    /\ pc' = [pc EXCEPT ![c] = "store_hi"]
    /\ UNCHANGED <<ndebug, mem0, par, i, reg, rd, iters>>

\* line 38
StoreHi(c) ==
    /\ pc[c] = "store_hi"
    /\ mem' = _mm_storeu_ps(mem, par[c].dst + DstOffHi(i[c]), reg[c].out_hi)
    /\ Written(c, DstOffHi(i[c]))
    /\ pc' = [pc EXCEPT ![c] = "incr"]
    /\ UNCHANGED <<ndebug, mem0, par, i, reg, rd, iters>>

\* line 17: i += 4; iters counts the blocks done (it stops counting at Word,
\* more than any count has blocks)
Incr(c) ==
    /\ pc[c] = "incr"
    /\ i' = [i EXCEPT ![c] = NextI(i[c])]
    /\ iters' = [iters EXCEPT ![c] = IF @ < Word THEN @ + 1 ELSE @]
    /\ pc' = [pc EXCEPT ![c] = "test"]
    /\ UNCHANGED <<ndebug, mem, mem0, par, reg, rd, wr, wdup>>

Next ==
    \E c \in Calls :
        \/ AssertPass(c)
        \/ AssertFail(c)
        \/ Broadcast(c)
        \/ LoopTest(c)
        \/ Load(c)
        \/ Mul(c)
        \/ Unpack(c)
        \/ StoreLo(c)
        \/ StoreHi(c)
        \/ Incr(c)

Spec == Init /\ [][Next]_vars
SpecPair == InitPair /\ [][Next]_vars

----------------------------------------------------------------------------
\* The whole call as a function of the memory: what call p leaves of memory m
\* when nothing else runs

Block(m, p, j) ==
    LET in == _mm_loadu_ps(m, p.src + j)
        out_l == _mm_mul_ps(in, _mm_set1_ps(p.gain_l))
        out_r == _mm_mul_ps(in, _mm_set1_ps(p.gain_r))
        lo == _mm_storeu_ps(m, p.dst + DstOffLo(j), _mm_unpacklo_ps(out_l, out_r))
    IN  _mm_storeu_ps(lo, p.dst + DstOffHi(j), _mm_unpackhi_ps(out_l, out_r))

RECURSIVE RunFrom(_, _, _)
RunFrom(m, p, j) ==
    IF LoopCond(j, p.num_samples) THEN RunFrom(Block(m, p, j), p, NextI(j)) ELSE m

RunCall(m, p) == IF AssertOk(p.num_samples) THEN RunFrom(m, p, 0) ELSE m

----------------------------------------------------------------------------
\* Properties

N(c) == par[c].num_samples
Valid(c) == par[c].active /\ N(c) % BlockWidth = 0
SrcAt(c, j) == mem0[par[c].src + j]
DstAt(c, j) == mem[par[c].dst + j]
InBody(c) == pc[c] \in {"load", "mul", "unpack", "store_lo", "store_hi", "incr"}
RdAddr(c) == {par[c].src + j : j \in rd[c]}
WrAddr(c) == {par[c].dst + j : j \in wr[c]}

\* C1: after the call returns, for num_samples a multiple of 4, dst[2j] is
\* src[j]*gain_l and dst[2j+1] is src[j]*gain_r for every j below num_samples.
C1_Elementwise ==
    (Valid(1) /\ pc[1] = "done") =>
        \A j \in 0 .. (N(1) - 1) :
            /\ DstAt(1, 2 * j) = FMul(SrcAt(1, j), par[1].gain_l)
            /\ DstAt(1, 2 * j + 1) = FMul(SrcAt(1, j), par[1].gain_r)

\* C2 as stated: when num_samples is not a multiple of 4 the call ends in the
\* assertion failure before any element of src is read or of dst is written.
C2_AlwaysAborts ==
    (par[1].active /\ N(1) % BlockWidth # 0) =>
        /\ pc[1] \in {"entry", "aborted"}
        /\ rd[1] = {} /\ wr[1] = {}
        /\ mem = mem0

\* C2 amended: in a build that keeps the assertion (NDEBUG not defined), when
\* num_samples is not a multiple of 4 the call ends in the assertion failure
\* before any element of src is read or of dst is written.
C2_AbortsWhenAssertsOn ==
    (~ndebug /\ par[1].active /\ N(1) % BlockWidth # 0) =>
        /\ pc[1] \in {"entry", "aborted"}
        /\ rd[1] = {} /\ wr[1] = {}
        /\ mem = mem0

C2_Witness == ~ndebug /\ N(1) = 5 /\ pc[1] = "aborted"

\* C3: for num_samples a multiple of 4, src is left unchanged and so is every
\* element outside dst[0 .. 2*num_samples-1]; src is read only below
\* num_samples and dst written only below 2*num_samples.
C3_Frame ==
    Valid(1) =>
        /\ \A a \in SrcRange(par[1]) : mem[a] = mem0[a]
        /\ \A a \in Addr \ DstRange(par[1]) : mem[a] = mem0[a]
        /\ rd[1] \subseteq 0 .. (N(1) - 1)
        /\ wr[1] \subseteq 0 .. (2 * N(1) - 1)

C3_Witness ==
    /\ Valid(1) /\ pc[1] = "done" /\ N(1) = Word - BlockWidth
    /\ rd[1] = 0 .. (N(1) - 1) /\ wr[1] # {}
    /\ \E a \in DstRange(par[1]) : mem[a] # mem0[a]

\* C4: for num_samples a multiple of 4, 0 and the largest one included, the
\* loop counter is 4 times the number of blocks done, stays below num_samples
\* inside the body and never passes it, and the loop ends with the counter
\* equal to num_samples after num_samples/4 blocks.
C4_LoopCount ==
    Valid(1) =>
        /\ (pc[1] = "test" \/ pc[1] = "done" \/ InBody(1)) =>
              i[1] = BlockWidth * iters[1] /\ i[1] <= N(1)
        /\ InBody(1) => i[1] < N(1)
        /\ pc[1] = "done" => i[1] = N(1) /\ iters[1] * BlockWidth = N(1)

C4_Witness ==
    /\ pc[1] = "done" /\ N(1) = Word - BlockWidth
    /\ i[1] = N(1) /\ iters[1] = (Word \div BlockWidth) - 1

\* C5: two valid calls on disjoint buffers, their steps interleaved in any
\* order: neither reads or writes a location the other writes, and when both
\* have returned the memory is what running one call after the other leaves.
C5_Independent ==
    (Valid(1) /\ Valid(2)) =>
        /\ WrAddr(1) \cap (RdAddr(2) \cup WrAddr(2)) = {}
        /\ WrAddr(2) \cap (RdAddr(1) \cup WrAddr(1)) = {}
        /\ (pc[1] = "done" /\ pc[2] = "done") =>
              /\ mem = RunCall(RunCall(mem0, par[1]), par[2])
              /\ mem = RunCall(RunCall(mem0, par[2]), par[1])

C5_Witness ==
    /\ Valid(1) /\ Valid(2) /\ pc[1] = "done" /\ pc[2] = "done"
    /\ wr[1] # {} /\ wr[2] # {}
    /\ mem # mem0

\* C6: a call with num_samples = 4 writes exactly dst[0..7], once each, as
\* L0,R0,L1,R1,L2,R2,L3,R3 with Lk = src[k]*gain_l and Rk = src[k]*gain_r;
\* src = 1,2,3,4 with gains 0.5 and 2 gives 0.5,2,1,4,1.5,6,2,8.
C6_Example ==
    <<Half, Two, One, Four, Flt(0, 3, -1), Flt(0, 6, 0), Two, Flt(0, 8, 0)>>

C6_IsExampleCall ==
    /\ N(1) = BlockWidth
    /\ par[1].gain_l = Half /\ par[1].gain_r = Two
    /\ \A k \in Lane : SrcAt(1, k) = Flt(0, k + 1, 0)

C6_SingleBlock ==
    (par[1].active /\ N(1) = BlockWidth /\ pc[1] = "done") =>
        /\ wr[1] = 0 .. (2 * BlockWidth - 1)
        /\ wdup[1] = {}
        /\ \A k \in Lane :
              /\ DstAt(1, 2 * k) = FMul(SrcAt(1, k), par[1].gain_l)
              /\ DstAt(1, 2 * k + 1) = FMul(SrcAt(1, k), par[1].gain_r)
        /\ C6_IsExampleCall =>
              \A j \in 0 .. (2 * BlockWidth - 1) : DstAt(1, j) = C6_Example[j + 1]

C6_Witness ==
    /\ pc[1] = "done" /\ C6_IsExampleCall
    /\ \A j \in 0 .. (2 * BlockWidth - 1) : DstAt(1, j) = C6_Example[j + 1]

\* C7: with gain_l = 0.0 every left output dst[2j], j below num_samples, is
\* a zero, and with gain_r = 0.0 every right output dst[2j+1] is.
C7_ZeroGain ==
    (Valid(1) /\ pc[1] = "done") =>
        \A j \in 0 .. (N(1) - 1) :
            /\ IsZero(par[1].gain_l) => IsZero(DstAt(1, 2 * j))
            /\ IsZero(par[1].gain_r) => IsZero(DstAt(1, 2 * j + 1))

\* C8: with gain_l = gain_r = 1.0 and num_samples a multiple of 4, dst[2j] and
\* dst[2j+1] are src[j] for every j below num_samples.
C8_IdentityGain ==
    (Valid(1) /\ pc[1] = "done" /\ par[1].gain_l = One /\ par[1].gain_r = One) =>
        \A j \in 0 .. (N(1) - 1) :
            DstAt(1, 2 * j) = SrcAt(1, j) /\ DstAt(1, 2 * j + 1) = SrcAt(1, j)

\* equal up to rounding: both NaN, the same infinity, or finite and no more
\* than two units in the last place of the larger apart
Scaled(x) == (IF x.s = 1 THEN -1 ELSE 1) * x.m * Pow2(x.e - EMinQ)
Dist(a, b) == IF a >= b THEN a - b ELSE b - a
ApproxEq(a, b) ==
    IF IsNaN(a) \/ IsNaN(b) THEN IsNaN(a) /\ IsNaN(b)
    ELSE IF a.c = "inf" \/ b.c = "inf" THEN a = b
    ELSE Dist(Scaled(a), Scaled(b)) <= 2 * Pow2(Max(a.e, b.e) - EMinQ)

\* C9: for num_samples a multiple of 4, mixing the buffer k*src gives, up to
\* rounding, the output buffer of mixing src with every element multiplied
\* by k. (Call 2 mixes k*src, call 1 mixes src, with the same gains.)
C9_ScaleCommutes ==
    \A k \in Scales :
        ( /\ Valid(1) /\ Valid(2) /\ N(1) = N(2)
          /\ pc[1] = "done" /\ pc[2] = "done"
          /\ \A j \in 0 .. (N(1) - 1) : SrcAt(2, j) = FMul(SrcAt(1, j), k) )
        => \A j \in 0 .. (2 * N(1) - 1) :
               ApproxEq(DstAt(2, j), FMul(DstAt(1, j), k))

\* C10: for num_samples a multiple of 4 and every block start i the loop
\* visits, the offsets 2*i and 2*i+4 computed in the width of uint32_t are
\* the numbers 2i and 2i+4, no dst index is written twice, and at the end
\* every dst index below 2*num_samples has been written.
C10_OffsetsExact ==
    Valid(1) =>
        /\ InBody(1) => DstOffLo(i[1]) = 2 * i[1] /\ DstOffHi(i[1]) = 2 * i[1] + 4
        /\ wdup[1] = {}
        /\ pc[1] = "done" => wr[1] = 0 .. (2 * N(1) - 1)

====
